---------------------------- MODULE Spec2Model ----------------------------
(***************************************************************************)
(* EZMount (src/main.py): the configuration parser, the mapping store,    *)
(* the mount supervisor and the periodic reconciliation of tracked mounts  *)
(* against the filesystem.                                                 *)
(*                                                                         *)
(* Spec is the supervisor: records added by hand, mounts started and       *)
(* stopped from the UI thread and from worker threads, the two timers and  *)
(* the environment.  SpecGen is the mapping store: a configuration file is *)
(* selected, parsed, and records are generated from it and cleared.        *)
(*                                                                         *)
(* Strings are sequences of one-character strings, so that the key         *)
(* "<remote> -> <target>" is really built by concatenation and matched by  *)
(* suffix / substring as the code does.                                    *)
(***************************************************************************)
EXTENDS Integers, Sequences, FiniteSets, Bags, TLC

(***************************************************************************)
(* Bounds of the model.                                                    *)
(***************************************************************************)
MaxMappings == 1    \* records the user adds by hand (show_add_mapping_dialog)
MaxProcs == 1       \* mount processes spawned in one run
MaxRecords == 4     \* length of the record list in the mapping-store runs
MaxSections == 27   \* sections of a configuration in the allocator runs
MaxAllocated == 30  \* length of the record list in the allocator runs
MaxLines == 3       \* lines of a configuration text in the parser runs
MaxFlagged == 2     \* length of the record list in the startup and batch runs
MaxBatch == 2       \* mount processes spawned in one batch run

(***************************************************************************)
(* Program constants.                                                      *)
(***************************************************************************)
OrdA == 65
OrdZ == 90
OrdX == 88

(***************************************************************************)
(* Python string operations on sequences of characters.                    *)
(***************************************************************************)
Whitespace == {" ", "\t"}

RECURSIVE LStrip(_)
LStrip(s) == IF s # <<>> /\ Head(s) \in Whitespace THEN LStrip(Tail(s)) ELSE s

RECURSIVE RStrip(_)
RStrip(s) ==
    IF s # <<>> /\ s[Len(s)] \in Whitespace
    THEN RStrip(SubSeq(s, 1, Len(s) - 1))
    ELSE s

\* str.strip()
Strip(s) == RStrip(LStrip(s))

\* str.startswith / str.endswith / the `in` operator on strings
StartsWith(s, pre) == Len(pre) <= Len(s) /\ SubSeq(s, 1, Len(pre)) = pre

EndsWith(s, suf) ==
    Len(suf) <= Len(s) /\ SubSeq(s, Len(s) - Len(suf) + 1, Len(s)) = suf

Contains(s, sub) ==
    \E i \in 1..(Len(s) - Len(sub) + 1) : SubSeq(s, i, i + Len(sub) - 1) = sub

\* str.lower() on the letters the model uses
LowerChar(c) == IF c = "S" THEN "s" ELSE IF c = "D" THEN "d" ELSE c

Lower(s) == [i \in 1..Len(s) |-> LowerChar(s[i])]

\* the sequence without its i-th element
RemoveAt(s, i) == SubSeq(s, 1, i - 1) \o SubSeq(s, i + 1, Len(s))

\* f"{remote} -> {drive}"
MappingText(remote, drive) == remote \o <<" ", "-", ">", " ">> \o drive

(***************************************************************************)
(* parse_conf_sections.  The result is the dict in insertion order: a      *)
(* sequence of [name, kv], kv a sequence of [k, v] in insertion order.     *)
(***************************************************************************)
\* index of the first occurrence of the character c in s, 0 when there is none
IndexOf(s, c) ==
    LET hits == {i \in 1..Len(s) : s[i] = c}
    IN  IF hits = {} THEN 0 ELSE CHOOSE i \in hits : \A j \in hits : i <= j

\* str.splitlines() on "\n"
RECURSIVE SplitLines(_)
SplitLines(text) ==
    IF text = <<>> THEN <<>>
    ELSE LET n == IndexOf(text, "\n")
         IN  IF n = 0 THEN <<text>>
             ELSE <<SubSeq(text, 1, n - 1)>>
                      \o SplitLines(SubSeq(text, n + 1, Len(text)))

\* position of the key in a dict, 0 when it is absent
SectionIndex(sections, name) ==
    LET hits == {i \in 1..Len(sections) : sections[i].name = name}
    IN  IF hits = {} THEN 0 ELSE CHOOSE i \in hits : TRUE

KvIndex(kv, k) ==
    LET hits == {i \in 1..Len(kv) : kv[i].k = k}
    IN  IF hits = {} THEN 0 ELSE CHOOSE i \in hits : TRUE

\* kv[k] = v
KvSet(kv, k, v) ==
    IF KvIndex(kv, k) = 0 THEN Append(kv, [k |-> k, v |-> v])
    ELSE [kv EXCEPT ![KvIndex(kv, k)].v = v]

\* kv.get(k, default)
KvGet(kv, k, default) ==
    IF KvIndex(kv, k) = 0 THEN default ELSE kv[KvIndex(kv, k)].v

\* a turn of the loop in which a repeated header keeps the section's pairs
ParseLineKeepsOnRepeat(st, raw) ==
    LET line == Strip(raw)
    IN  IF line = <<>> \/ StartsWith(line, <<"#">>) THEN st
        ELSE IF StartsWith(line, <<"[">>) /\ EndsWith(line, <<"]">>)
        THEN LET name == Strip(SubSeq(line, 2, Len(line) - 1))
                 at == SectionIndex(st.sections, name)
             IN  IF at = 0
                 THEN [sections |-> Append(st.sections, [name |-> name, kv |-> <<>>]),
                       current |-> Len(st.sections) + 1]
                 ELSE [sections |-> st.sections, current |-> at]
        ELSE IF st.current = 0 THEN st
        ELSE IF Contains(line, <<"=">>)
        THEN LET n == IndexOf(line, "=")
                 k == Strip(SubSeq(line, 1, n - 1))
                 v == Strip(SubSeq(line, n + 1, Len(line)))
             IN  [st EXCEPT !.sections[st.current].kv = KvSet(@, k, v)]
        ELSE st

\* one turn of the loop over the lines; st.current is the position of the
\* current section, 0 for None
ParseLine(st, raw) ==
    LET line == Strip(raw)
    IN  IF line = <<>> \/ StartsWith(line, <<"#">>) THEN st
        ELSE IF StartsWith(line, <<"[">>) /\ EndsWith(line, <<"]">>)
        THEN LET name == Strip(SubSeq(line, 2, Len(line) - 1))
                 at == SectionIndex(st.sections, name)
             IN  IF at = 0
                 THEN [sections |-> Append(st.sections, [name |-> name, kv |-> <<>>]),
                       current |-> Len(st.sections) + 1]
                 ELSE [sections |-> [st.sections EXCEPT ![at].kv = <<>>],
                       current |-> at]
        ELSE IF st.current = 0 THEN st
        ELSE IF Contains(line, <<"=">>)
        THEN LET n == IndexOf(line, "=")
                 k == Strip(SubSeq(line, 1, n - 1))
                 v == Strip(SubSeq(line, n + 1, Len(line)))
             IN  [st EXCEPT !.sections[st.current].kv = KvSet(@, k, v)]
        ELSE st

RECURSIVE ParseLines(_, _)
ParseLines(st, lines) ==
    IF lines = <<>> THEN st
    ELSE LET st2 == ParseLine(st, Head(lines))
         IN  IF st2 = st THEN ParseLines(st, Tail(lines))   \* nothing stored
             ELSE ParseLines(st2, Tail(lines))

parse_conf_sections(conf_text) ==
    ParseLines([sections |-> <<>>, current |-> 0], SplitLines(conf_text)).sections

(***************************************************************************)
(* Configuration texts the user can select.                                *)
(***************************************************************************)
KeyType == <<"t", "y", "p", "e">>
KeyBucket == <<"b", "u", "c", "k", "e", "t">>
KeyBucketName == KeyBucket \o <<"_", "n", "a", "m", "e">>
S3 == <<"s", "3">>

HdrA == <<"[", "a", "]">>
HdrB == <<" ", "[", " ", "b", "]">>
LineTypeS3 == KeyType \o <<"=">> \o S3
LineTypeS3Upper == <<" ">> \o KeyType \o <<" ", "=", " ", "S", "3", " ">>
LineTypeDrive == KeyType \o <<" ", "=", " ", "d", "r", "i", "v", "e">>
LineBucketData == KeyBucket \o <<"=", "d", "a", "t", "a">>
LineBucketEmpty == KeyBucket \o <<" ", "=">>
LineBucketNameAlt == KeyBucketName \o <<" ", "=", " ", "a", "l", "t">>
LineComment == <<"#", "[", "c", "]">>
LineJunk == <<"j", "u", "n", "k">>

\* "\n".join(lines)
RECURSIVE JoinLines(_)
JoinLines(lines) ==
    IF lines = <<>> THEN <<>>
    ELSE IF Len(lines) = 1 THEN Head(lines)
    ELSE Head(lines) \o <<"\n">> \o JoinLines(Tail(lines))

\* the key / value lines of one section
Bodies ==
    { <<>>,
      <<LineTypeS3, LineBucketData>>,
      <<LineTypeS3Upper, LineComment>>,
      <<LineTypeDrive, LineBucketEmpty>>,
      <<LineBucketEmpty, <<>>, LineBucketNameAlt>>,
      <<LineBucketNameAlt, LineJunk, LineBucketData>> }

ConfTexts ==
    { JoinLines(<<HdrA>> \o b1 \o <<HdrB>> \o b2) : b1 \in {<<>>, <<LineTypeDrive, LineBucketEmpty>>},
                                                       b2 \in Bodies }
    \cup { <<>>,
           JoinLines(<<LineBucketData, HdrA, LineTypeS3, HdrB, HdrA, LineBucketNameAlt>>) }

\* configurations of many sections, for the letter allocator: section i is
\* named by i letters, and section `gap` (if any) is of type s3 with no bucket
SectionName(i) == [j \in 1..i |-> "n"]

AllocSection(i, gap) ==
    IF i = gap THEN <<<<"[">> \o SectionName(i) \o <<"]">>, LineTypeS3>>
    ELSE <<<<"[">> \o SectionName(i) \o <<"]">>>>

RECURSIVE AllocLines(_, _)
AllocLines(n, gap) ==
    IF n = 0 THEN <<>> ELSE AllocLines(n - 1, gap) \o AllocSection(n, gap)

AllocTexts ==
    { JoinLines(AllocLines(n, gap)) : n \in {5, 8, MaxSections - 1, MaxSections}, gap \in {0, 1, 2} }

\* every text of at most MaxLines lines over a pool of lines, for the parser
LineKv == <<"k", "=", "v">>
LineKvSpaced == <<" ", "k", " ", "=", " ", "w", "=", "x", " ">>
LineKeyOnly == <<"j", "=">>
LineCommentKv == <<"#", "k", "=", "v">>
HdrKv == <<"[", "k", "=", "v", "]">>

LinePool ==
    {HdrA, HdrB, HdrKv, LineKv, LineKvSpaced, LineKeyOnly, LineCommentKv,
     LineJunk, <<>>}

ParseTexts ==
    { JoinLines(ls) : ls \in UNION {[1..n -> LinePool] : n \in 0..MaxLines} }

\* two sections whose names differ by a character that is no letter
HdrADot == <<"[", "a", ".", "]">>
RegTexts == {JoinLines(<<HdrA, HdrB>>), JoinLines(<<HdrA, HdrADot>>)}

\* parse_conf_sections on each text of the model, tabulated
Parsed ==
    [t \in ConfTexts \cup AllocTexts \cup ParseTexts \cup RegTexts |->
        parse_conf_sections(t)]

(***************************************************************************)
(* The values the user and the environment supply.                         *)
(***************************************************************************)
RemoteR == <<"r", ":">>
LabelL == <<"L">>
DriveX == <<"X", ":">>
DriveW == <<"W", ":">>
DriveM == <<"/", "m">>
DriveM2 == <<"/", "m", "2">>

Pids == 1..MaxBatch

VARIABLES
    os_nt,            \* os.name == "nt"
    rclone_path,      \* TRUE when shutil.which("rclone") resolved the binary
    conf_file,        \* the configuration file on disk the user can select
    loaded_conf_path,
    loaded_conf_text,
    conf_sections,
    mappings,         \* self.mappings, in order
    active_mounts,    \* self.active_mounts, in order
    startup_log,      \* self.startup_log
    manifest_file,    \* STARTUP_LOG_PATH on disk
    autostart,        \* the startup folder: whether its path is known, whether
                      \* it exists, and its files
    live,             \* the filesystem paths that exist
    procs,            \* pid -> "none" | "running" | "exited"
    threads,          \* worker threads started and not yet at Popen (a bag)
    ui_pc,            \* what the UI thread is doing
    ua_todo,          \* unmount_all: the snapshot entries still to stop
    periodic_armed,   \* an after(...) timer for _refresh_status_periodic is pending
    scan_armed,       \* the after(300, scan_for_external_mounts) timer is pending
    term_req,         \* pids on which terminate() was called
    last              \* the operation that produced this state

confVars == <<conf_file, loaded_conf_path, loaded_conf_text, conf_sections>>
envVars == <<os_nt, rclone_path, manifest_file, autostart>>
vars == <<os_nt, rclone_path, conf_file, loaded_conf_path, loaded_conf_text,
          conf_sections, mappings, active_mounts, startup_log, manifest_file,
          autostart, live, procs, threads, ui_pc, ua_todo, periodic_armed, scan_armed,
          term_req, last>>

(***************************************************************************)
(* The values the user and the environment supply: drive letters on nt,    *)
(* directories elsewhere.                                                  *)
(***************************************************************************)
Drive1 == IF os_nt THEN DriveX ELSE DriveM
Drive2 == IF os_nt THEN DriveW ELSE DriveM2

DrivePool == {Drive1, Drive2}

\* what the add-mapping dialog can be given
MappingPool ==
    { [remote |-> RemoteR, label |-> RemoteR, drive |-> Drive2, startup |-> TRUE],
      [remote |-> <<>>, label |-> LabelL, drive |-> Drive1, startup |-> FALSE] }

\* a manifest row: a JSON object (ok) with the fields the scan reads, or a
\* JSON value that is not an object
GoodRow == [ok |-> TRUE, label |-> LabelL, remote |-> <<>>, drive |-> Drive2]
BadRow == [ok |-> FALSE, label |-> <<>>, remote |-> <<>>, drive |-> <<>>]

\* the manifest file found at start: absent, not JSON, or a JSON list
ManifestFiles ==
    { [kind |-> "absent", rows |-> <<>>],
      [kind |-> "json", rows |-> <<GoodRow>>],
      [kind |-> "json", rows |-> <<GoodRow, BadRow>>] }

(***************************************************************************)
(* Target liveness.                                                        *)
(***************************************************************************)
\* the path _is_drive_in_use tests for existence
DrivePath(d) ==
    IF os_nt /\ Len(d) >= 2 /\ d[2] = ":"
    THEN SubSeq(d, 1, 2) \o <<"\\">>
    ELSE d

IsDriveInUse(d) == d # <<>> /\ DrivePath(d) \in live

FsPaths == {DrivePath(d) : d \in DrivePool}

(***************************************************************************)
(* Tracked mounts.                                                         *)
(***************************************************************************)
OwnedEntry(key, pid) ==
    [mapping |-> key, proc |-> pid, detected |-> FALSE, from_startup_log |-> FALSE]

\* a scan entry without the detected flag
DetectedEntryUnflagged(key, fromLog) ==
    [mapping |-> key, proc |-> 0, detected |-> FALSE, from_startup_log |-> fromLog]

DetectedEntry(key, fromLog) ==
    [mapping |-> key, proc |-> 0, detected |-> TRUE, from_startup_log |-> fromLog]

\* any(am["mapping"] == mapping_text for am in self.active_mounts)
Tracked(ams, key) == \E i \in 1..Len(ams) : ams[i].mapping = key

OwnedKeys(ams) == {ams[i].mapping : i \in {j \in 1..Len(ams) : ams[j].proc # 0}}
DetectedKeys(ams) == {ams[i].mapping : i \in {j \in 1..Len(ams) : ams[j].detected}}
TrackedPids(ams) == {ams[i].proc : i \in 1..Len(ams)} \ {0}


(***************************************************************************)
(* scan_for_external_mounts.                                               *)
(***************************************************************************)
\* a scan that appends a detected entry for every live key it sees
ScanAddsAlways(ams, key) == TRUE

\* the test that guards each append of a detected entry
ScanAdds(ams, key) == ~Tracked(ams, key)

\* first loop: the mapping records ms, from the i-th on
RECURSIVE ScanMappings(_, _, _)
ScanMappings(ms, ams, i) ==
    IF i > Len(ms) THEN ams
    ELSE LET d == Strip(ms[i].drive)
             key == MappingText(Strip(ms[i].remote), d)
         IN  IF IsDriveInUse(d) /\ ScanAdds(ams, key)
             THEN ScanMappings(ms, Append(ams, DetectedEntry(key, FALSE)), i + 1)
             ELSE ScanMappings(ms, ams, i + 1)

MappingScanKeys(ms) ==
    { MappingText(Strip(ms[i].remote), Strip(ms[i].drive)) :
        i \in {j \in 1..Len(ms) : IsDriveInUse(Strip(ms[j].drive))} }

\* the first manifest row on which entry.get raises (a row that is no object),
\* or Len + 1
FirstBadRow ==
    LET bad == {j \in 1..Len(startup_log) : ~startup_log[j].ok}
    IN  IF bad = {} THEN Len(startup_log) + 1
        ELSE CHOOSE j \in bad : \A k \in bad : j <= k

ScanRaises == FirstBadRow <= Len(startup_log)

StartupKey(e) ==
    IF e.remote # <<>> THEN MappingText(e.remote, e.drive)
    ELSE MappingText(e.label, e.drive)

\* second loop: the manifest rows, from the j-th on, up to the raising row
RECURSIVE ScanStartupLog(_, _)
ScanStartupLog(ams, j) ==
    IF j >= FirstBadRow THEN ams
    ELSE LET e == startup_log[j]
         IN  IF IsDriveInUse(e.drive) /\ ScanAdds(ams, StartupKey(e))
             THEN ScanStartupLog(Append(ams, DetectedEntry(StartupKey(e), TRUE)), j + 1)
             ELSE ScanStartupLog(ams, j + 1)

StartupScanKeys ==
    { StartupKey(startup_log[j]) :
        j \in {k \in 1..(FirstBadRow - 1) : IsDriveInUse(startup_log[k].drive)} }

\* detected_now
DetectedNow(ms) == MappingScanKeys(ms) \cup StartupScanKeys

\* third loop: drop the detected entries whose key was not seen
DropStale(ms, ams) ==
    LET Keep(am) == ~(am.detected /\ am.mapping \notin DetectedNow(ms))
    IN  SelectSeq(ams, Keep)

\* the tracked list the scan leaves, given the mapping records ms; the third
\* loop is not reached when the second one raises
ScanForExternalMounts(ms, ams) ==
    LET scanned == ScanStartupLog(ScanMappings(ms, ams, 1), 1)
    IN  IF ScanRaises THEN scanned ELSE DropStale(ms, scanned)

(***************************************************************************)
(* _refresh_status_periodic: reap, then scan.                              *)
(***************************************************************************)
\* am["proc"].poll() is not None
Polled(am) == am.proc # 0 /\ procs[am.proc] = "exited"

Reap(ams) ==
    LET Keep(am) == ~Polled(am)
    IN  SelectSeq(ams, Keep)

RefreshResult(ams) == ScanForExternalMounts(mappings, Reap(ams))

\* _load_startup_log
LoadStartupLog(f) == IF f.kind = "json" THEN f.rows ELSE <<>>


(***************************************************************************)
(* The mapping store: add, remove.                                         *)
(***************************************************************************)
UiIdle == ui_pc = "idle"

\* the value of `last` after an operation no property looks back at
Other == [op |-> "other"]

mountVars == <<active_mounts, live, procs, threads, ui_pc, ua_todo,
               periodic_armed, scan_armed, term_req>>

\* add_mapping_row
AddMappingRow(ms, remote, label, drive, startup) ==
    Append(ms, [remote |-> remote, label |-> label, drive |-> drive,
                startup |-> startup])

\* show_add_mapping_dialog: the dialog's answers, stripped
ShowAddMappingDialog(m) ==
    /\ UiIdle
    /\ Len(mappings) < MaxMappings
    /\ mappings' = AddMappingRow(mappings, Strip(m.remote), Strip(m.label),
                                 Strip(m.drive), m.startup)
    /\ last' = Other
    /\ UNCHANGED <<confVars, envVars, startup_log, mountVars>>

\* action_remove_selected, confirmed by the user
ActionRemoveSelected(i) ==
    /\ UiIdle
    /\ mappings' = RemoveAt(mappings, i)
    /\ last' = Other
    /\ UNCHANGED <<confVars, envVars, startup_log, mountVars>>

\* what the user types into the cell editor
EditValues == {<<"b", ":", " ">>}

\* bool(new and new.lower() not in ("", "no", "false", "0"))
EditedFlag(new) ==
    new \notin {<<>>, <<"n", "o">>, <<"f", "a", "l", "s", "e">>, <<"0">>}

\* _on_tree_double_click: commit of the editor opened on the cell col_key of
\* the i-th record
TreeEditCommit(i, col_key, text) ==
    /\ UiIdle
    /\ mappings' =
         CASE col_key = "startup" ->
                  [mappings EXCEPT ![i].startup = EditedFlag(Lower(Strip(text)))]
           [] col_key = "remote" -> [mappings EXCEPT ![i].remote = Strip(text)]
           [] col_key = "label" -> [mappings EXCEPT ![i].label = Strip(text)]
           [] OTHER -> [mappings EXCEPT ![i].drive = Strip(text)]
    /\ last' = [op |-> "edit", col |-> col_key]
    /\ UNCHANGED <<confVars, envVars, startup_log, mountVars>>

(***************************************************************************)
(* clear_mappings and auto_generate_mappings.                              *)
(***************************************************************************)
Alphabet ==
    <<"A", "B", "C", "D", "E", "F", "G", "H", "I", "J", "K", "L", "M",
      "N", "O", "P", "Q", "R", "S", "T", "U", "V", "W", "X", "Y", "Z">>

\* chr(n) for the ordinals of the capital letters
Chr(n) == Alphabet[n - OrdA + 1]

\* a _next_drive_ord that wraps one letter early
NextDriveOrdSkipsA(ord_val) == IF ord_val - 1 <= OrdA THEN OrdZ ELSE ord_val - 1

\* _next_drive_ord
NextDriveOrd(ord_val) == IF ord_val - 1 < OrdA THEN OrdZ ELSE ord_val - 1

\* clear_mappings; yes is the answer to "Clear all mappings?"
ClearMappings(ms, yes) ==
    IF ms = <<>> THEN ms
    ELSE IF ~yes THEN ms
    ELSE <<>>

\* bucket_input.split(",")
RECURSIVE SplitComma(_)
SplitComma(str) ==
    LET n == IndexOf(str, ",")
    IN  IF n = 0 THEN <<str>>
        ELSE <<SubSeq(str, 1, n - 1)>> \o SplitComma(SubSeq(str, n + 1, Len(str)))

\* [x.strip() for x in bucket_input.split(",") if x.strip()]
ExtraBuckets(bucket_input) ==
    LET pieces == SplitComma(bucket_input)
        NonEmpty(x) == x # <<>>
    IN  SelectSeq([i \in 1..Len(pieces) |-> Strip(pieces[i])], NonEmpty)

\* what the user answers to "Add more buckets?" and to the bucket names
\* dialog (<<>> for a cancelled or empty dialog)
HookAnswers ==
    { [add_more |-> FALSE, input |-> <<>>],
      [add_more |-> TRUE, input |-> <<>>],
      [add_more |-> TRUE, input |-> <<" ", "e", ",", ",", "f">>] }

\* kv.get("type", "").lower()
TypeVal(kv) == Lower(KvGet(kv, KeyType, <<>>))

\* kv.get("bucket") or kv.get("bucket_name"); None and "" are both <<>>
BucketVal(kv) ==
    IF KvGet(kv, KeyBucket, <<>>) # <<>> THEN KvGet(kv, KeyBucket, <<>>)
    ELSE KvGet(kv, KeyBucketName, <<>>)

\* the branch that asks for more buckets
LooksLikeS3(kv) == TypeVal(kv) = S3 \/ BucketVal(kv) # <<>>

\* add_mapping_row followed by _next_drive_ord; g is [ms, ord]
Emit(g, remote, label) ==
    [ms |-> AddMappingRow(g.ms, remote, label, <<Chr(g.ord), ":">>, FALSE),
     ord |-> NextDriveOrd(g.ord)]

RECURSIVE EmitBuckets(_, _, _)
EmitBuckets(g, section, bs) ==
    IF bs = <<>> THEN g
    ELSE EmitBuckets(Emit(g, section \o <<":">> \o Head(bs),
                          section \o <<"-">> \o Head(bs)),
                     section, Tail(bs))

\* the buckets the user adds for a section
AskedBuckets(ans) ==
    IF ans.add_more /\ ans.input # <<>> THEN ExtraBuckets(ans.input) ELSE <<>>

\* one turn of the loop over conf_sections.items()
GenerateSection(g, sec, ans) ==
    IF LooksLikeS3(sec.kv)
    THEN LET own == IF BucketVal(sec.kv) # <<>> THEN <<BucketVal(sec.kv)>> ELSE <<>>
         IN  EmitBuckets(g, sec.name, own \o AskedBuckets(ans))
    ELSE Emit(g, sec.name \o <<":">>, sec.name)

RECURSIVE GenerateFrom(_, _, _, _)
GenerateFrom(g, sections, hook, i) ==
    IF i > Len(sections) THEN g
    ELSE LET g2 == GenerateSection(g, sections[i], hook[i])
         IN  IF g2 = g THEN GenerateFrom(g, sections, hook, i + 1)   \* nothing emitted
             ELSE GenerateFrom(g2, sections, hook, i + 1)

\* the loop of auto_generate_mappings, appending to ms
Generate(ms, sections, hook) ==
    GenerateFrom([ms |-> ms, ord |-> OrdX], sections, hook, 1).ms

\* auto_generate_mappings: the record list it leaves
AutoGenerate(ms, sections, yes, hook) ==
    IF sections = <<>> THEN ClearMappings(ms, yes)
    ELSE Generate(ClearMappings(ms, yes), sections, hook)

\* TRUE when the hook supplied a bucket for some section
HookAdded(sections, hook) ==
    \E i \in 1..Len(sections) :
        LooksLikeS3(sections[i].kv) /\ AskedBuckets(hook[i]) # <<>>

\* the value of `last` after auto_generate_mappings ran on sections and left
\* the record list ms: whether the hook added buckets, whether the call
\* directly follows another call on the same sections in which the hook added
\* nothing, whether ms is exactly what this call generated, and whether ms is
\* the list the call started from
Generated(sections, hook, ms) ==
    [op |-> "auto_generate",
     extras |-> HookAdded(sections, hook),
     repeat |-> /\ last.op = "auto_generate"
                /\ ~last.extras
                /\ sections = conf_sections,
     kept |-> Len(ms) - Len(Generate(<<>>, sections, hook)),
     only_generated |-> ms = Generate(<<>>, sections, hook),
     same_as_before |-> ms = mappings]

\* the "Auto-generate mappings" button
AutoGenerateMappings(yes, hook) ==
    /\ UiIdle
    /\ mappings' = AutoGenerate(mappings, conf_sections, yes, hook)
    /\ last' = Generated(conf_sections, hook,
                          AutoGenerate(mappings, conf_sections, yes, hook))
    /\ UNCHANGED <<confVars, envVars, startup_log, mountVars>>

\* the "Clear mappings" button
ClearMappingsClicked(yes) ==
    /\ UiIdle
    /\ mappings' = ClearMappings(mappings, yes)
    /\ last' = Other
    /\ UNCHANGED <<confVars, envVars, startup_log, mountVars>>

\* a select_conf that goes on when read_text raises
LoadFailsOnCancelOnly(pick) == ~pick

\* select_conf returns early: no file was picked, or read_text raised
LoadFails(pick) == ~pick \/ ~conf_file.readable

\* the file is removed, or rewritten in another encoding
ConfFileLost ==
    /\ conf_file.readable
    /\ conf_file' = [conf_file EXCEPT !.readable = FALSE]
    /\ last' = Other
    /\ UNCHANGED <<loaded_conf_path, loaded_conf_text, conf_sections, envVars,
                   mappings, startup_log, mountVars>>

\* select_conf: the dialog is cancelled (~pick), the file cannot be read, or
\* it is loaded, parsed, and the mappings are generated and scanned
SelectConf(pick, yes, hook) ==
    /\ UiIdle
    /\ IF LoadFails(pick)
       THEN /\ last' = [op |-> "select_conf",
                        outcome |-> IF ~pick THEN "cancelled" ELSE "unreadable"]
            /\ UNCHANGED <<loaded_conf_path, loaded_conf_text, conf_sections,
                           mappings, active_mounts>>
       ELSE LET sections == Parsed[conf_file.text]
                ms == AutoGenerate(mappings, sections, yes, hook)
            IN  /\ loaded_conf_path' = TRUE
                /\ loaded_conf_text' = conf_file.text
                /\ conf_sections' = sections
                /\ mappings' = ms
                /\ active_mounts' = ScanForExternalMounts(ms, active_mounts)
                /\ last' = Generated(sections, hook, ms)
    /\ UNCHANGED <<conf_file, envVars, startup_log, live, procs, threads, ui_pc,
                   ua_todo, periodic_armed, scan_armed, term_req>>

(***************************************************************************)
(* Startup files and the startup log.                                      *)
(***************************************************************************)
STARTUP_PREFIX == <<"E", "Z", "M", "o", "u", "n", "t", "_">>

\* get_startup_folder() is None (nt without APPDATA), or the folder is
\* missing, or it holds files
NoStartupFolder == [known |-> TRUE, exists |-> FALSE, files |-> {}]

\* files other programs or earlier versions left in the startup folder
ForeignFiles ==
    { [name |-> <<"o", ".", "l", "n", "k">>, text |-> <<>>],
      [name |-> STARTUP_PREFIX \o <<"o", "l", "d">>, text |-> <<>>] }

StartupFolders ==
    {NoStartupFolder}
        \cup (IF os_nt THEN {[known |-> FALSE, exists |-> FALSE, files |-> {}]} ELSE {})
        \cup {[known |-> TRUE, exists |-> TRUE, files |-> fs] : fs \in SUBSET ForeignFiles}

\* action_toggle_startup on the i-th record
ActionToggleStartup(i) ==
    /\ UiIdle
    /\ mappings' = [mappings EXCEPT ![i].startup = ~@]
    /\ last' = Other
    /\ UNCHANGED <<confVars, envVars, startup_log, mountVars>>

\* c.isalnum() or c in ("-", "_"), on the characters the model uses
IsLabelChar(c) ==
    \/ \E n \in 1..Len(Alphabet) : c = Alphabet[n]
    \/ c \in {"a", "b", "e", "f", "k", "n", "r", "-", "_"}

\* "".join(c for c in label if ...).strip() or "mapping"
SafeLabel(label) ==
    IF Strip(SelectSeq(label, IsLabelChar)) = <<>>
    THEN <<"m", "a", "p", "p", "i", "n", "g">>
    ELSE Strip(SelectSeq(label, IsLabelChar))

\* fname
StartupFileName(label) ==
    STARTUP_PREFIX \o SafeLabel(label)
        \o (IF os_nt THEN <<".", "c", "m", "d">>
            ELSE <<".", "d", "e", "s", "k", "t", "o", "p">>)

\* the rclone mount command of a record; hidden when nircmd was found
MountCommand(m, nircmd) ==
    [hidden |-> nircmd, rclone |-> rclone_path, remote |-> m.remote,
     drive |-> m.drive, conf |-> loaded_conf_path]

\* what is written into the file: cmdline on nt, content elsewhere
StartupFileText(m, nircmd) ==
    IF os_nt THEN [desktop |-> FALSE, name |-> <<>>, cmd |-> MountCommand(m, nircmd)]
    ELSE [desktop |-> TRUE, name |-> STARTUP_PREFIX \o SafeLabel(m.label),
          cmd |-> MountCommand(m, FALSE)]

\* fpath.write_text(...)
WriteFile(files, name, text) ==
    {f \in files : f.name # name} \cup {[name |-> name, text |-> text]}

\* the row appended to log_entries; cmdline is a local only the nt branch binds
StartupRow(m, nircmd) ==
    [ok |-> TRUE, label |-> SafeLabel(m.label), remote |-> m.remote,
     drive |-> m.drive, filename |-> StartupFileName(m.label),
     cmdline |-> IF os_nt THEN <<MountCommand(m, nircmd)>> ELSE <<>>]

\* entries: the records flagged for startup, in order
StartupEntries(ms) == SelectSeq(ms, LAMBDA m : m.startup)

\* the loop over entries from the i-th on; fails are the positions whose
\* write_text raises; st is [files, rows, created]
RECURSIVE CreateStartups(_, _, _, _, _)
CreateStartups(st, entries, i, fails, nircmd) ==
    IF i > Len(entries) THEN st
    ELSE IF i \in fails THEN CreateStartups(st, entries, i + 1, fails, nircmd)
    ELSE CreateStartups(
             [files |-> WriteFile(st.files, StartupFileName(entries[i].label),
                                  StartupFileText(entries[i], nircmd)),
              rows |-> Append(st.rows, StartupRow(entries[i], nircmd)),
              created |-> st.created + 1],
             entries, i + 1, fails, nircmd)

\* add_selected_to_startup; create is the answer to "Create ... startup
\* files?", nircmd whether nircmd is found, fails the records whose file
\* cannot be written, log_ok whether the startup log can be written
AddSelectedToStartup(create, nircmd, fails, log_ok) ==
    /\ UiIdle
    /\ IF ~autostart.known
       THEN /\ last' = [op |-> "add_to_startup", outcome |-> "no_folder",
                        created |-> 0, rows |-> <<>>, failed |-> {}]
            /\ UNCHANGED <<autostart, manifest_file, startup_log>>
       ELSE IF StartupEntries(mappings) = <<>> \/ ~create
       THEN /\ autostart' = [autostart EXCEPT !.exists = TRUE]
            /\ last' = [op |-> "add_to_startup",
                        outcome |-> IF StartupEntries(mappings) = <<>>
                                    THEN "no_entries" ELSE "declined",
                        created |-> 0, rows |-> <<>>, failed |-> {}]
            /\ UNCHANGED <<manifest_file, startup_log>>
       ELSE LET done == CreateStartups([files |-> autostart.files, rows |-> <<>>,
                                        created |-> 0],
                                       StartupEntries(mappings), 1, fails, nircmd)
            IN  /\ autostart' = [known |-> TRUE, exists |-> TRUE, files |-> done.files]
                /\ manifest_file' = IF log_ok THEN [kind |-> "json", rows |-> done.rows]
                                    ELSE manifest_file
                /\ startup_log' = IF log_ok THEN done.rows ELSE startup_log
                /\ last' = [op |-> "add_to_startup", outcome |-> "done",
                            created |-> done.created, rows |-> done.rows,
                            failed |-> fails]
    /\ UNCHANGED <<confVars, os_nt, rclone_path, mappings, mountVars>>

\* a clear_startups that takes every file of the folder
AllFiles(files) == files

\* files: the EZMount startup files of the folder
PrefixedFiles(files) == {f \in files : StartsWith(f.name, STARTUP_PREFIX)}

\* a clear_startups that leaves the startup log file where it is
LogFileKept(f, unlink_ok) == f

\* STARTUP_LOG_PATH after the last try block of clear_startups
LogFileCleared(f, unlink_ok) ==
    IF f.kind # "absent" /\ unlink_ok THEN [kind |-> "absent", rows |-> <<>>] ELSE f

\* clear_startups; remove is the answer to "Remove ... files?", fails the
\* files whose unlink raises, unlink_ok whether the startup log can be deleted
ClearStartups(remove, fails, unlink_ok) ==
    /\ UiIdle
    /\ IF ~autostart.known \/ ~autostart.exists
       THEN /\ last' = [op |-> "clear_startups", outcome |-> "no_folder",
                        removed |-> 0, failed |-> FALSE]
            /\ UNCHANGED <<autostart, manifest_file, startup_log>>
       ELSE IF PrefixedFiles(autostart.files) = {} \/ ~remove
       THEN /\ last' = [op |-> "clear_startups",
                        outcome |-> IF PrefixedFiles(autostart.files) = {}
                                    THEN "no_files" ELSE "declined",
                        removed |-> 0, failed |-> FALSE]
            /\ UNCHANGED <<autostart, manifest_file, startup_log>>
       ELSE /\ autostart' = [autostart EXCEPT
                                !.files = @ \ (PrefixedFiles(@) \ fails)]
            /\ manifest_file' = LogFileCleared(manifest_file, unlink_ok)
            /\ startup_log' = IF manifest_file.kind # "absent" /\ unlink_ok
                              THEN <<>> ELSE startup_log
            /\ last' = [op |-> "clear_startups", outcome |-> "done",
                        removed |-> Cardinality(PrefixedFiles(autostart.files) \ fails),
                        failed |-> \/ PrefixedFiles(autostart.files) \cap fails # {}
                                   \/ (manifest_file.kind # "absent" /\ ~unlink_ok)]
    /\ UNCHANGED <<confVars, os_nt, rclone_path, mappings, mountVars>>

(***************************************************************************)
(* Starting mounts.                                                        *)
(***************************************************************************)
\* processes spawned so far, and the pid the next Popen gets
Spawned == {p \in Pids : procs[p] # "none"}
NextPid == Cardinality(Spawned) + 1

\* a worker thread: the arguments of _start_detached_mount, and two ghost
\* fields: whether the target was live when the caller started the thread, and
\* whether the user was asked about it and chose to go on
Thread(remote, drive, was_live, confirmed) ==
    [remote |-> remote, drive |-> drive, was_live |-> was_live,
     confirmed |-> confirmed]

\* the runs stop starting threads at max processes
CanStart(max, n) == Cardinality(Spawned) + BagCardinality(threads) + n <= max

\* a _mount_single without its two checks
MountSingleUnchecked(remote, drive) ==
    threads (+) SetToBag({Thread(remote, drive, IsDriveInUse(drive), FALSE)})

\* _mount_single: one thread, unless the binary or the remote is missing
MountSingle(remote, drive) ==
    IF rclone_path /\ remote # <<>>
    THEN threads (+) SetToBag({Thread(remote, drive, IsDriveInUse(drive), FALSE)})
    ELSE threads

\* action_mount_selected
ActionMountSelected(i) ==
    /\ UiIdle
    /\ threads' = MountSingle(mappings[i].remote, mappings[i].drive)
    /\ last' = [op |-> "mount_selected", remote |-> mappings[i].remote,
                started |-> BagCardinality(threads') - BagCardinality(threads)]
    /\ UNCHANGED <<confVars, envVars, mappings, startup_log, active_mounts, live,
                   procs, ui_pc, ua_todo, periodic_armed, scan_armed, term_req>>

\* mount_all: the to_mount list, from the i-th record on; skip[i] is the
\* user's answer to "Skip this mapping?" when the drive is in use
RECURSIVE ToMount(_, _)
ToMount(skip, i) ==
    IF i > Len(mappings) THEN <<>>
    ELSE LET r == Strip(mappings[i].remote)
             d == Strip(mappings[i].drive)
         IN  IF r = <<>> \/ (IsDriveInUse(d) /\ skip[i])
             THEN ToMount(skip, i + 1)
             ELSE <<Thread(r, d, IsDriveInUse(d), IsDriveInUse(d))>>
                      \o ToMount(skip, i + 1)

RECURSIVE SeqToBag(_)
SeqToBag(s) ==
    IF s = <<>> THEN EmptyBag ELSE SetToBag({Head(s)}) (+) SeqToBag(Tail(s))

\* mount_all: the threads it starts
MountAllThreads(skip) == IF rclone_path THEN ToMount(skip, 1) ELSE <<>>

MountAll(skip) ==
    /\ UiIdle
    /\ threads' = threads (+) SeqToBag(MountAllThreads(skip))
    /\ last' = [op |-> "mount_all", started |-> Len(MountAllThreads(skip))]
    /\ UNCHANGED <<confVars, envVars, mappings, startup_log, active_mounts, live,
                   procs, ui_pc, ua_todo, periodic_armed, scan_armed, term_req>>

\* a _start_detached_mount whose failure stops the other worker threads
StartDetachedMountAborting(t, spawn) ==
    /\ BagIn(t, threads)
    /\ threads' = IF rclone_path /\ spawn THEN threads (-) SetToBag({t}) ELSE EmptyBag
    /\ IF rclone_path /\ spawn
       THEN /\ procs' = [procs EXCEPT ![NextPid] = "running"]
            /\ active_mounts' =
                 Append(active_mounts, OwnedEntry(MappingText(t.remote, t.drive), NextPid))
       ELSE UNCHANGED <<procs, active_mounts>>
    /\ last' = [op |-> "launch", was_live |-> t.was_live,
                confirmed |-> t.confirmed, ok |-> rclone_path /\ spawn]
    /\ UNCHANGED <<confVars, envVars, mappings, startup_log, live, ui_pc, ua_todo,
                   periodic_armed, scan_armed, term_req>>

\* _start_detached_mount in its worker thread: Popen succeeds (spawn) or
\* raises; on success the entry is appended
StartDetachedMount(t, spawn) ==
    /\ BagIn(t, threads)
    /\ threads' = threads (-) SetToBag({t})
    /\ IF rclone_path /\ spawn
       THEN /\ procs' = [procs EXCEPT ![NextPid] = "running"]
            /\ active_mounts' =
                 Append(active_mounts, OwnedEntry(MappingText(t.remote, t.drive), NextPid))
       ELSE UNCHANGED <<procs, active_mounts>>
    /\ last' = [op |-> "launch", was_live |-> t.was_live,
                confirmed |-> t.confirmed, ok |-> rclone_path /\ spawn]
    /\ UNCHANGED <<confVars, envVars, mappings, startup_log, live, ui_pc, ua_todo,
                   periodic_armed, scan_armed, term_req>>


(***************************************************************************)
(* Stopping mounts.                                                        *)
(***************************************************************************)
\* the test _unmount_single applies to each tracked entry
Matches(key, drive) ==
    EndsWith(key, <<"-", ">", " ">> \o drive) \/ Contains(key, drive)

\* index of the first tracked entry the loop stops at, 0 when there is none
FirstMatch(ams, drive) ==
    LET hits == {i \in 1..Len(ams) : Matches(ams[i].mapping, drive)}
    IN  IF hits = {} THEN 0 ELSE CHOOSE i \in hits : \A j \in hits : i <= j

\* what terminate / wait(timeout=3) / kill can do on one process
StopOutcomes == {"term_raises", "exited", "timeout_killed", "timeout_kill_raises"}

StopPossible(p, o) ==
    o \in {"timeout_killed", "timeout_kill_raises"} => procs[p] = "running"

\* the calls made on the process, in order
StopCalls(o) ==
    CASE o = "term_raises" -> <<"terminate">>
      [] o = "exited" -> <<"terminate", "wait">>
      [] OTHER -> <<"terminate", "wait", "kill">>

ProcsAfterStop(p, o) ==
    IF o \in {"exited", "timeout_killed"} THEN [procs EXCEPT ![p] = "exited"]
    ELSE procs

HasCall(calls, c) == \E n \in 1..Len(calls) : calls[n] = c

\* a removal placed inside the try block, skipped when a call raises
RemoveStoppedUnlessRaised(ams, k, raised) ==
    IF raised THEN ams ELSE RemoveAt(ams, k)

\* active_mounts.remove(am) after the try block; raised tells whether
\* terminate or kill raised
RemoveStopped(ams, k, raised) == RemoveAt(ams, k)

\* the best-effort stop of a mount that has no process handle: taskkill of
\* every rclone.exe on nt, fusermount -u / umount of the path elsewhere
ExternalResults == {"ok", "failed", "raised"}

ProcsAfterExternalStop(res) ==
    IF os_nt /\ res = "ok"
    THEN [p \in Pids |-> IF procs[p] = "running" THEN "exited" ELSE procs[p]]
    ELSE procs

\* a removal that depends on the result of the unmount command
RemoveExternalIfStopped(ams, k, res) ==
    IF res = "ok" THEN RemoveAt(ams, k) ELSE ams

\* active_mounts.remove(am) after the unmount command of an external mount
RemoveExternal(ams, k, res) == RemoveAt(ams, k)

NoStop(drive) ==
    [op |-> "unmount_single", drive |-> drive, acted |-> FALSE, key |-> <<>>,
     pid |-> 0, calls |-> <<>>, outcome |-> "none"]

\* _unmount_single(drive)
UnmountSingle(drive, o, do_it, res) ==
    LET k == FirstMatch(active_mounts, drive)
        am == active_mounts[k]
    IN  IF drive = <<>> \/ k = 0
        THEN /\ last' = NoStop(drive)
             /\ UNCHANGED <<active_mounts, procs, term_req>>
        ELSE IF am.proc # 0
        THEN /\ StopPossible(am.proc, o)
             /\ procs' = ProcsAfterStop(am.proc, o)
             /\ term_req' = term_req \cup {am.proc}
             /\ active_mounts' =
                  RemoveStopped(active_mounts, k, o \in {"term_raises", "timeout_kill_raises"})
             /\ last' = [op |-> "unmount_single", drive |-> drive, acted |-> TRUE,
                         key |-> am.mapping, pid |-> am.proc, calls |-> StopCalls(o),
                         outcome |-> o]
        ELSE IF do_it
        THEN /\ procs' = ProcsAfterExternalStop(res)
             /\ active_mounts' = RemoveExternal(active_mounts, k, res)
             /\ last' = [op |-> "unmount_single", drive |-> drive, acted |-> TRUE,
                         key |-> am.mapping, pid |-> 0, calls |-> <<>>,
                         outcome |-> CASE res = "ok" -> "external"
                                       [] res = "failed" -> "external_failed"
                                       [] OTHER -> "external_raised"]
             /\ UNCHANGED term_req
        ELSE /\ last' = [NoStop(drive) EXCEPT !.key = am.mapping,
                                              !.outcome = "declined"]
             /\ UNCHANGED <<active_mounts, procs, term_req>>

\* action_unmount_selected
ActionUnmountSelected(i, o, do_it, res) ==
    /\ UiIdle
    /\ UnmountSingle(mappings[i].drive, o, do_it, res)
    /\ UNCHANGED <<confVars, envVars, mappings, startup_log, live, threads, ui_pc,
                   ua_todo, periodic_armed, scan_armed>>

\* unmount_all up to the snapshot list(self.active_mounts): nothing tracked,
\* or the user's answer to "Stop n mounts?"
UnmountAllBegin(confirm) ==
    /\ UiIdle
    /\ active_mounts # <<>>
    /\ IF confirm
       THEN ui_pc' = "unmount_all" /\ ua_todo' = active_mounts
       ELSE UNCHANGED <<ui_pc, ua_todo>>
    /\ last' = Other
    /\ UNCHANGED <<confVars, envVars, mappings, startup_log, active_mounts, live,
                   procs, threads, periodic_armed, scan_armed, term_req>>

\* one turn of the loop over the snapshot
UnmountAllStep(o, res) ==
    /\ ui_pc = "unmount_all"
    /\ ua_todo # <<>>
    /\ LET am == Head(ua_todo)
       IN  IF am.proc # 0
           THEN /\ StopPossible(am.proc, o)
                /\ procs' = ProcsAfterStop(am.proc, o)
                /\ term_req' = term_req \cup {am.proc}
           ELSE /\ procs' = ProcsAfterExternalStop(res)
                /\ UNCHANGED term_req
    /\ ua_todo' = Tail(ua_todo)
    /\ last' = Other
    /\ UNCHANGED <<confVars, envVars, mappings, startup_log, active_mounts, live,
                   threads, ui_pc, periodic_armed, scan_armed>>

\* self.active_mounts.clear() after the loop
UnmountAllClear ==
    /\ ui_pc = "unmount_all"
    /\ ua_todo = <<>>
    /\ active_mounts' = <<>>
    /\ ui_pc' = "idle"
    /\ last' = [op |-> "unmount_all", dropped |-> TrackedPids(active_mounts)]
    /\ UNCHANGED <<confVars, envVars, mappings, startup_log, live, procs, threads,
                   ua_todo, periodic_armed, scan_armed, term_req>>

(***************************************************************************)
(* The timers.                                                             *)
(***************************************************************************)
\* _refresh_status_periodic; self.after(2000, ...) is its last statement
RefreshStatusPeriodic ==
    /\ UiIdle
    /\ periodic_armed
    /\ ~scan_armed
    /\ active_mounts' = RefreshResult(active_mounts)
    /\ periodic_armed' = ~ScanRaises
    /\ last' = [op |-> "periodic", raised |-> ScanRaises]
    /\ UNCHANGED <<confVars, envVars, mappings, startup_log, live, procs, threads,
                   ui_pc, ua_todo, scan_armed, term_req>>

\* the scan armed by __init__: self.after(300, self.scan_for_external_mounts)
InitialScan ==
    /\ UiIdle
    /\ scan_armed
    /\ active_mounts' = ScanForExternalMounts(mappings, active_mounts)
    /\ scan_armed' = FALSE
    /\ last' = [op |-> "scan", raised |-> ScanRaises]
    /\ UNCHANGED <<confVars, envVars, mappings, startup_log, live, procs, threads,
                   ui_pc, ua_todo, periodic_armed, term_req>>

(***************************************************************************)
(* The environment: the filesystem and the mount processes.                *)
(***************************************************************************)
TargetAppears(p) ==
    /\ p \notin live
    /\ live' = live \cup {p}
    /\ last' = Other
    /\ UNCHANGED <<confVars, envVars, mappings, startup_log, active_mounts, procs,
                   threads, ui_pc, ua_todo, periodic_armed, scan_armed, term_req>>

TargetDisappears(p) ==
    /\ p \in live
    /\ live' = live \ {p}
    /\ last' = Other
    /\ UNCHANGED <<confVars, envVars, mappings, startup_log, active_mounts, procs,
                   threads, ui_pc, ua_todo, periodic_armed, scan_armed, term_req>>

ProcessExits(p) ==
    /\ procs[p] = "running"
    /\ procs' = [procs EXCEPT ![p] = "exited"]
    /\ last' = Other
    /\ UNCHANGED <<confVars, envVars, mappings, startup_log, active_mounts, live,
                   threads, ui_pc, ua_todo, periodic_armed, scan_armed, term_req>>

(***************************************************************************)
(* The supervisor's specification.                                         *)
(***************************************************************************)
NoConfFile == [readable |-> FALSE, text |-> <<>>]

\* EZMountApp.__init__
Constructed ==
    /\ loaded_conf_path = FALSE
    /\ loaded_conf_text = <<>>
    /\ conf_sections = <<>>
    /\ mappings = <<>>
    /\ active_mounts = <<>>
    /\ startup_log = LoadStartupLog(manifest_file)
    /\ procs = [p \in Pids |-> "none"]
    /\ threads = EmptyBag
    /\ ui_pc = "idle"
    /\ ua_todo = <<>>
    /\ periodic_armed = TRUE
    /\ scan_armed = TRUE
    /\ term_req = {}
    /\ last = [op |-> "init"]

Init ==
    /\ os_nt \in BOOLEAN
    /\ rclone_path \in BOOLEAN
    /\ conf_file = NoConfFile
    /\ manifest_file \in ManifestFiles
    /\ autostart = NoStartupFolder
    /\ live = {}
    /\ Constructed

Next ==
    \/ \E m \in MappingPool : ShowAddMappingDialog(m)
    \/ \E i \in 1..Len(mappings) : ActionRemoveSelected(i)
    \/ \E i \in 1..Len(mappings) : CanStart(MaxProcs, 1) /\ ActionMountSelected(i)
    \/ \E skip \in [1..Len(mappings) -> BOOLEAN] :
           CanStart(MaxProcs, Len(MountAllThreads(skip))) /\ MountAll(skip)
    \/ \E t \in BagToSet(threads), spawn \in BOOLEAN : StartDetachedMount(t, spawn)
    \/ \E i \in 1..Len(mappings), o \in StopOutcomes, do_it \in BOOLEAN,
          res \in ExternalResults :
           ActionUnmountSelected(i, o, do_it, res)
    \/ \E confirm \in BOOLEAN : UnmountAllBegin(confirm)
    \/ \E o \in StopOutcomes, res \in ExternalResults : UnmountAllStep(o, res)
    \/ UnmountAllClear
    \/ RefreshStatusPeriodic
    \/ InitialScan
    \/ \E p \in FsPaths : TargetAppears(p)
    \/ \E p \in FsPaths : TargetDisappears(p)
    \/ \E p \in Pids : ProcessExits(p)

Spec == Init /\ [][Next]_vars

(***************************************************************************)
(* The mapping store's specification: a configuration file on disk, the    *)
(* record list and the operations that fill and empty it.                  *)
(***************************************************************************)
ConfFiles ==
    {NoConfFile} \cup {[readable |-> TRUE, text |-> t] : t \in ConfTexts}

\* the answers the user gives during one call on these sections: the hook is
\* consulted only for the sections that take the bucket branch
Hooks(sections) ==
    LET asked == {i \in 1..Len(sections) : LooksLikeS3(sections[i].kv)}
    IN  { [i \in 1..Len(sections) |->
              IF i \in asked THEN h[i] ELSE [add_more |-> FALSE, input |-> <<>>]] :
          h \in [asked -> HookAnswers] }

\* "Clear all mappings?" is asked only when there are records
ClearAnswers == IF mappings = <<>> THEN {FALSE} ELSE BOOLEAN

InitGen ==
    /\ os_nt = TRUE
    /\ rclone_path = TRUE
    /\ conf_file \in ConfFiles
    /\ manifest_file = [kind |-> "absent", rows |-> <<>>]
    /\ autostart = NoStartupFolder
    /\ live \in {{}, {DrivePath(DriveX)}}
    /\ Constructed

\* the runs stop growing the record list at max records
Within(max, sections, yes, hook) ==
    Len(AutoGenerate(mappings, sections, yes, hook)) <= max

NextGen ==
    \/ \E yes \in ClearAnswers, hook \in Hooks(Parsed[conf_file.text]) :
           /\ Within(MaxRecords, Parsed[conf_file.text], yes, hook)
           /\ SelectConf(TRUE, yes, hook)
    \/ SelectConf(FALSE, FALSE, <<>>)
    \/ \E yes \in ClearAnswers, hook \in Hooks(conf_sections) :
           /\ Within(MaxRecords, conf_sections, yes, hook)
           /\ AutoGenerateMappings(yes, hook)
    \/ \E yes \in ClearAnswers : ClearMappingsClicked(yes)
    \/ \E m \in MappingPool : ShowAddMappingDialog(m)
    \/ \E i \in 1..Len(mappings) : ActionRemoveSelected(i)
    \/ InitialScan

SpecGen == InitGen /\ [][NextGen]_vars

(***************************************************************************)
(* Properties of the supervisor.                                           *)
(***************************************************************************)
\* C1: a mount process is launched against a target that was live when the
\* mount was requested only after the user confirmed to go on for that target.
C1_LaunchOnLiveTargetConfirmed ==
    (last.op = "launch" /\ last.ok /\ last.was_live) => last.confirmed

\* C2: the periodic pass (reap, then scan) is idempotent: with targets,
\* processes, mapping records and manifest unchanged, a second run leaves the
\* tracked list exactly as the first run left it.
C2_ReconcileIdempotent ==
    RefreshResult(RefreshResult(active_mounts)) = RefreshResult(active_mounts)

\* a state in which the first run both reaps an exited process and leaves
\* tracked entries, and changes the tracked list
C2_Witness ==
    /\ \E i \in 1..Len(active_mounts) : Polled(active_mounts[i])
    /\ RefreshResult(active_mounts) # active_mounts
    /\ \E i \in 1..Len(RefreshResult(active_mounts)) :
           RefreshResult(active_mounts)[i].detected

\* C3: stopping a process-owned tracked entry ends with that entry removed,
\* after terminate was called first and kill only when the bounded wait
\* expired; the entry is removed also when terminate or kill raised.
C3_StopOwnedRemovesEntry ==
    (last.op = "unmount_single" /\ last.acted /\ last.pid # 0) =>
        /\ last.pid \notin TrackedPids(active_mounts)
        /\ last.pid \in term_req
        /\ Head(last.calls) = "terminate"
        /\ HasCall(last.calls, "kill") =>
               /\ last.calls = <<"terminate", "wait", "kill">>
               /\ last.outcome \in {"timeout_killed", "timeout_kill_raises"}
        /\ last.outcome = "exited" => ~HasCall(last.calls, "kill")

\* a stop of a process-owned entry in which the wait expired and kill raised
C3_Witness ==
    /\ last.op = "unmount_single"
    /\ last.acted
    /\ last.pid # 0
    /\ last.outcome = "timeout_kill_raises"
    /\ procs[last.pid] = "running"

\* C4: a stop for a target acts only on a tracked entry whose key ends with
\* that target.
C4_StopActsOnSuffixMatchOnly ==
    (last.op = "unmount_single" /\ last.acted) => EndsWith(last.key, last.drive)

\* C5: every process-owned entry that leaves the tracked list at the end of a
\* confirmed stop-all had terminate called on its process.
C5_StopAllStopsWhatItDrops ==
    last.op = "unmount_all" => last.dropped \subseteq term_req

\* the keys of the manifest rows whose target is live
ManifestLiveKeys ==
    { StartupKey(startup_log[j]) :
        j \in {k \in 1..Len(startup_log) :
                 startup_log[k].ok /\ IsDriveInUse(startup_log[k].drive)} }

\* C6: immediately after a scan, the keys of the detection-only entries are
\* the keys of the mapping records and manifest rows with a live target, minus
\* the keys tracked as process-owned.
C6_DetectedEqualsScanMinusOwned ==
    last.op \in {"scan", "periodic"} =>
        DetectedKeys(active_mounts) =
            (MappingScanKeys(mappings) \cup ManifestLiveKeys)
                \ OwnedKeys(active_mounts)

\* C7: whenever the process of a tracked process-owned entry has exited, a
\* periodic pass that will remove the entry is still scheduled.
C7_ExitedEntryGetsReaped ==
    (\E i \in 1..Len(active_mounts) : Polled(active_mounts[i])) => periodic_armed

(***************************************************************************)
(* Properties of the mapping store.                                        *)
(***************************************************************************)
\* C8: after auto-generation on a non-empty set of sections the record list
\* is exactly the list of records generated in that call; no earlier record
\* remains.
C8_AutoGenerateReplacesRecords ==
    (last.op = "auto_generate" /\ conf_sections # <<>>) => last.only_generated

\* C9: auto-generation called twice in a row on the same sections, with
\* nothing done in between and no bucket added by the user, leaves the same
\* record list the second time as the first.
C9_AutoGenerateTwiceSameList ==
    (last.op = "auto_generate" /\ last.repeat /\ ~last.extras) =>
        last.same_as_before

\* the reference of C10 for one section: the remotes it yields
ReferenceSection(sec) ==
    IF \/ TypeVal(sec.kv) = S3
       \/ KvIndex(sec.kv, KeyBucket) # 0
       \/ KvIndex(sec.kv, KeyBucketName) # 0
    THEN IF BucketVal(sec.kv) # <<>>
         THEN <<sec.name \o <<":">> \o BucketVal(sec.kv)>>
         ELSE <<>>
    ELSE <<sec.name \o <<":">>>>

RECURSIVE Reference(_)
Reference(sections) ==
    IF sections = <<>> THEN <<>>
    ELSE ReferenceSection(Head(sections)) \o Reference(Tail(sections))

\* C10: when the hook adds no bucket, the remotes of the record list left by
\* auto-generation are those of the reference, section by section in order.
C10_AutoGenerateMatchesReference ==
    (last.op = "auto_generate" /\ ~last.extras) =>
        [i \in 1..Len(mappings) |-> mappings[i].remote] = Reference(conf_sections)

(***************************************************************************)
(* The letter allocator's specification: a configuration of up to          *)
(* MaxSections sections is selected and records are generated from it,     *)
(* so that the allocator runs past "A".                                    *)
(***************************************************************************)
InitAlloc ==
    /\ os_nt = TRUE
    /\ rclone_path = TRUE
    /\ conf_file \in {[readable |-> TRUE, text |-> t] : t \in AllocTexts}
    /\ manifest_file = [kind |-> "absent", rows |-> <<>>]
    /\ autostart = NoStartupFolder
    /\ live = {}
    /\ Constructed

NextAlloc ==
    \/ \E yes \in ClearAnswers, hook \in Hooks(Parsed[conf_file.text]) :
           /\ Within(MaxAllocated, Parsed[conf_file.text], yes, hook)
           /\ SelectConf(TRUE, yes, hook)
    \/ \E yes \in ClearAnswers, hook \in Hooks(conf_sections) :
           /\ Within(MaxAllocated, conf_sections, yes, hook)
           /\ AutoGenerateMappings(yes, hook)

SpecAlloc == InitAlloc /\ [][NextAlloc]_vars

\* the k-th value of the cyclic allocator, k = 0, 1, 2, ...: "X" and then one
\* letter down per step, "Z" following "A"
CyclicLetter(k) ==
    Alphabet[((OrdX - OrdA + (Len(Alphabet) - 1) * k) % Len(Alphabet)) + 1]

\* C11: the k-th record emitted by one auto-generation (k = 0, 1, 2, ...) has
\* as target the k-th letter of the cyclic allocator followed by ":", however
\* many records are emitted and whichever sections emit none.
C11_EmittedTargetsFollowAllocator ==
    last.op = "auto_generate" =>
        \A k \in 0..(Len(mappings) - last.kept - 1) :
            mappings[last.kept + k + 1].drive = <<CyclicLetter(k), ":">>

\* records were emitted past "A", after a first section that emitted nothing
C11_Witness ==
    /\ last.op = "auto_generate"
    /\ ~last.extras
    /\ Len(mappings) - last.kept > OrdX - OrdA + 1
    /\ conf_sections # <<>>
    /\ LooksLikeS3(conf_sections[1].kv)
    /\ BucketVal(conf_sections[1].kv) = <<>>

(***************************************************************************)
(* The parser's specification: every text of at most MaxLines lines of the *)
(* pool is on disk and gets selected.                                      *)
(***************************************************************************)
InitParse ==
    /\ os_nt = TRUE
    /\ rclone_path = TRUE
    /\ conf_file \in {[readable |-> TRUE, text |-> t] : t \in ParseTexts}
    /\ manifest_file = [kind |-> "absent", rows |-> <<>>]
    /\ autostart = NoStartupFolder
    /\ live = {}
    /\ Constructed

NextParse ==
    \/ \E yes \in ClearAnswers, hook \in Hooks(Parsed[conf_file.text]) :
           /\ Within(MaxRecords, Parsed[conf_file.text], yes, hook)
           /\ SelectConf(TRUE, yes, hook)
    \/ SelectConf(FALSE, FALSE, <<>>)
    \/ ConfFileLost

SpecParse == InitParse /\ [][NextParse]_vars

\* the reference of C12, line by line: what a trimmed line is
RefSkipped(l) == l = <<>> \/ l[1] = "#"
RefHeader(l) == ~RefSkipped(l) /\ l[1] = "[" /\ l[Len(l)] = "]"
RefPair(l) == ~RefSkipped(l) /\ ~RefHeader(l) /\ \E p \in 1..Len(l) : l[p] = "="
RefName(l) == Strip(SubSeq(l, 2, Len(l) - 1))
RefEq(l) == CHOOSE p \in 1..Len(l) : l[p] = "=" /\ \A q \in 1..(p - 1) : l[q] # "="
RefKey(l) == Strip(SubSeq(l, 1, RefEq(l) - 1))
RefValue(l) == Strip(SubSeq(l, RefEq(l) + 1, Len(l)))

\* sections is what the reference gives for text: one section per distinct
\* header name, in the order of the names' first headers, holding the pairs
\* of the lines between the name's last header and the next header, the
\* last pair of a key standing for the key
ParserAgrees(text, sections) ==
    LET lines == [i \in 1..Len(SplitLines(text)) |-> Strip(SplitLines(text)[i])]
        hdrs == {i \in DOMAIN lines : RefHeader(lines[i])}
        firsts == {i \in hdrs : \A j \in hdrs : j < i => RefName(lines[j]) # RefName(lines[i])}
        Owner(i) == IF \E h \in hdrs : h < i
                    THEN CHOOSE h \in hdrs : h < i /\ \A g \in hdrs : g < i => g <= h
                    ELSE 0
        LastOf(name) == CHOOSE h \in hdrs :
                            /\ RefName(lines[h]) = name
                            /\ \A g \in hdrs : RefName(lines[g]) = name => g <= h
        PairsOf(name) == {i \in DOMAIN lines : RefPair(lines[i]) /\ Owner(i) = LastOf(name)}
        Final(name) == {i \in PairsOf(name) :
                           \A j \in PairsOf(name) : j > i => RefKey(lines[j]) # RefKey(lines[i])}
    IN  /\ Len(sections) = Cardinality(firsts)
        /\ \A i \in firsts :
               LET sec == sections[Cardinality({j \in firsts : j <= i})]
               IN  /\ sec.name = RefName(lines[i])
                   /\ Len(sec.kv) = Cardinality(Final(sec.name))
                   /\ {<<sec.kv[n].k, sec.kv[n].v>> : n \in 1..Len(sec.kv)}
                          = {<<RefKey(lines[j]), RefValue(lines[j])>> : j \in Final(sec.name)}

\* C12: the sections parsed from a loaded text are those of the reference:
\* one per distinct header in first-seen order, a repeated header keeping only
\* the pairs after its last occurrence, skipped lines and lines before the
\* first header giving nothing, pairs split at the first "=" and trimmed.
C12_ParserMatchesReference ==
    loaded_conf_path => ParserAgrees(loaded_conf_text, conf_sections)

\* a header repeated after a pair: the section is there once and empty
C12_Witness ==
    /\ loaded_conf_path
    /\ loaded_conf_text = JoinLines(<<HdrA, LineKv, HdrA>>)
    /\ conf_sections = <<[name |-> <<"a">>, kv |-> <<>>]>>

(***************************************************************************)
(* The startup registrar's specification: records are generated from a    *)
(* configuration of two sections, flagged for startup, written to the      *)
(* startup folder and cleared from it.                                     *)
(***************************************************************************)
InitReg ==
    /\ os_nt \in BOOLEAN
    /\ rclone_path = TRUE
    /\ conf_file \in {[readable |-> TRUE, text |-> t] : t \in RegTexts}
    /\ manifest_file = [kind |-> "absent", rows |-> <<>>]
    /\ autostart \in StartupFolders
    /\ live \in {{}, {DrivePath(DriveX)}}
    /\ Constructed

NextReg ==
    \/ \E hook \in Hooks(Parsed[conf_file.text]) :
           /\ Within(MaxFlagged, Parsed[conf_file.text], TRUE, hook)
           /\ SelectConf(TRUE, TRUE, hook)
    \/ \E i \in 1..Len(mappings) : ActionToggleStartup(i)
    \/ \E create \in BOOLEAN, nircmd \in BOOLEAN,
          fails \in SUBSET (1..Len(StartupEntries(mappings))), log_ok \in BOOLEAN :
           AddSelectedToStartup(create, nircmd, fails, log_ok)
    \/ \E remove \in BOOLEAN, fails \in SUBSET PrefixedFiles(autostart.files),
          unlink_ok \in BOOLEAN :
           ClearStartups(remove, fails, unlink_ok)

SpecReg == InitReg /\ [][NextReg]_vars

\* C13: after add_selected_to_startup ran for the flagged records (also when
\* there are none), the startup log on disk and in memory holds exactly the
\* rows of that call, one per record whose file was written.
C13_LogHoldsLatestCommit ==
    (last.op = "add_to_startup" /\ last.outcome \in {"done", "no_entries"}) =>
        /\ LoadStartupLog(manifest_file) = last.rows
        /\ startup_log = last.rows

\* C14: after a confirmed clear_startups in which no deletion failed, the
\* startup folder holds no file named EZMount_..., the startup log file is
\* absent and the startup log in memory is empty.
C14_ClearLeavesNoArtifactNoLog ==
    (last.op = "clear_startups" /\ last.outcome = "done" /\ ~last.failed) =>
        /\ \A f \in autostart.files : ~StartsWith(f.name, STARTUP_PREFIX)
        /\ manifest_file.kind = "absent"
        /\ startup_log = <<>>

\* files written by two calls and a foreign one were removed, with the log
C14_Witness ==
    /\ last.op = "clear_startups"
    /\ last.outcome = "done"
    /\ ~last.failed
    /\ last.removed = 3

\* C15: clear_startups called while the startup folder holds no EZMount_...
\* file and there is no startup log removes nothing, reports nothing removed,
\* and changes neither the folder, nor the log, nor the tracked mounts.
C15_ClearWithoutCommitIsNoOp ==
    [][ ( /\ last'.op = "clear_startups"
          /\ \A f \in autostart.files : ~StartsWith(f.name, STARTUP_PREFIX)
          /\ manifest_file.kind = "absent" )
        => ( /\ last'.removed = 0
             /\ last'.outcome \in {"no_folder", "no_files"}
             /\ UNCHANGED <<autostart, manifest_file, startup_log, active_mounts>> )
      ]_vars

\* nothing was ever written, the folder holds a foreign file and a mount is
\* tracked, and clear_startups has run
C15_Witness ==
    /\ last.op = "clear_startups"
    /\ last.outcome = "no_files"
    /\ autostart.files # {}
    /\ manifest_file.kind = "absent"
    /\ active_mounts # <<>>

\* C16: no thread is started, no process spawned and no entry tracked for a
\* record with an empty remote or while the rclone binary is not resolved.
C16_NoLaunchWithoutBinaryOrRemote ==
    /\ (last.op = "mount_selected" /\ (~rclone_path \/ last.remote = <<>>)) =>
           last.started = 0
    /\ (last.op = "mount_all" /\ ~rclone_path) => last.started = 0
    /\ \A t \in BagToSet(threads) : rclone_path /\ t.remote # <<>>
    /\ \A i \in 1..Len(active_mounts) :
           active_mounts[i].proc # 0 =>
               /\ rclone_path
               /\ ~StartsWith(active_mounts[i].mapping, <<" ", "-", ">", " ">>)
    /\ ~rclone_path => Spawned = {}

\* Mount was clicked on a record with an empty remote, the binary resolved
C16_Witness ==
    /\ last.op = "mount_selected"
    /\ last.remote = <<>>
    /\ rclone_path
    /\ threads = EmptyBag

\* C17: a stop of a detection-only entry changes nothing when the user
\* declines, and removes the entry when the user accepts, whatever the unmount
\* command did.
C17_StopDetectedEntry ==
    [][ /\ (last'.op = "unmount_single" /\ last'.outcome = "declined") =>
               UNCHANGED <<active_mounts, procs, term_req>>
        /\ ( /\ last'.op = "unmount_single"
             /\ last'.outcome \in {"external", "external_failed", "external_raised"} ) =>
               \E k \in 1..Len(active_mounts) :
                   /\ active_mounts[k].mapping = last'.key
                   /\ active_mounts[k].proc = 0
                   /\ active_mounts' = RemoveAt(active_mounts, k)
      ]_vars

\* the user accepted and the unmount command raised
C17_Witness ==
    /\ last.op = "unmount_single"
    /\ last.outcome = "external_raised"

\* C18: a tracked entry is detected exactly when it has no process handle,
\* the startup-origin flag is only on detected entries, and the entry a
\* successful launch appends has a handle and is not detected.
C18_EntryKinds ==
    /\ \A i \in 1..Len(active_mounts) :
           /\ active_mounts[i].detected <=> active_mounts[i].proc = 0
           /\ active_mounts[i].from_startup_log => active_mounts[i].detected
    /\ (last.op = "launch" /\ last.ok) =>
           /\ active_mounts # <<>>
           /\ active_mounts[Len(active_mounts)].proc # 0
           /\ ~active_mounts[Len(active_mounts)].detected

\* a launched mount and one found through the startup log are tracked together
C18_Witness ==
    \E i, j \in 1..Len(active_mounts) :
        active_mounts[i].proc # 0 /\ active_mounts[j].from_startup_log

\* C19: while the file cannot be read nothing changes the loaded path, text
\* and sections, and a select_conf that is cancelled or fails to read leaves
\* them and the records as they were.
C19_FailedLoadChangesNothing ==
    [][ /\ ~conf_file.readable =>
               UNCHANGED <<loaded_conf_path, loaded_conf_text, conf_sections>>
        /\ last'.op = "select_conf" =>
               UNCHANGED <<loaded_conf_path, loaded_conf_text, conf_sections, mappings>>
      ]_vars

\* a configuration was loaded, the file was lost, and select_conf failed
C19_Witness ==
    /\ last.op = "select_conf"
    /\ last.outcome = "unreadable"
    /\ loaded_conf_path
    /\ conf_sections # <<>>
    /\ mappings # <<>>

(***************************************************************************)
(* The batch specification: two records are generated and mounted, one by  *)
(* one or all at once, and each spawn succeeds or fails.                   *)
(***************************************************************************)
InitBatch ==
    /\ os_nt \in BOOLEAN
    /\ rclone_path = TRUE
    /\ conf_file \in {[readable |-> TRUE, text |-> t] : t \in RegTexts}
    /\ manifest_file = [kind |-> "absent", rows |-> <<>>]
    /\ autostart = NoStartupFolder
    /\ live \in {{}, {DrivePath(DriveX)}}
    /\ Constructed

NextBatch ==
    \/ \E hook \in Hooks(Parsed[conf_file.text]) :
           /\ Within(MaxFlagged, Parsed[conf_file.text], TRUE, hook)
           /\ SelectConf(TRUE, TRUE, hook)
    \/ \E i \in 1..Len(mappings) : CanStart(MaxBatch, 1) /\ ActionMountSelected(i)
    \/ \E skip \in [1..Len(mappings) -> BOOLEAN] :
           CanStart(MaxBatch, Len(MountAllThreads(skip))) /\ MountAll(skip)
    \/ \E t \in BagToSet(threads), spawn \in BOOLEAN : StartDetachedMount(t, spawn)
    \/ \E i \in 1..Len(mappings), text \in EditValues :
           TreeEditCommit(i, "remote", text)
    \/ InitialScan
    \/ RefreshStatusPeriodic
    \/ \E p \in Pids : ProcessExits(p)

SpecBatch == InitBatch /\ [][NextBatch]_vars

\* C20: a launch takes one worker thread and leaves the others pending; a
\* failed spawn changes neither the tracked mounts nor the processes, and a
\* successful one appends one entry with a new process under the key
\* "<remote> -> <target>" of its own thread.
C20_LaunchFailureIsLocal ==
    [][ last'.op = "launch" =>
            \E t \in BagToSet(threads) :
                /\ threads' = threads (-) SetToBag({t})
                /\ IF last'.ok
                   THEN \E p \in Pids :
                            /\ procs[p] = "none"
                            /\ procs' = [procs EXCEPT ![p] = "running"]
                            /\ active_mounts' =
                                 Append(active_mounts,
                                        [mapping |-> t.remote \o <<" ", "-", ">", " ">> \o t.drive,
                                         proc |-> p, detected |-> FALSE,
                                         from_startup_log |-> FALSE])
                   ELSE UNCHANGED <<active_mounts, procs>>
      ]_vars

\* of the two threads of a batch, one failed to spawn and the other is pending
C20_Witness ==
    /\ last.op = "launch"
    /\ ~last.ok
    /\ threads # EmptyBag
    /\ Spawned = {}

(***************************************************************************)
(* The startup registrar: the files and rows of one call.                  *)
(***************************************************************************)
\* the flagged records whose file was written, in order
RECURSIVE WrittenEntries(_, _, _)
WrittenEntries(entries, failed, i) ==
    IF i > Len(entries) THEN <<>>
    ELSE (IF i \in failed THEN <<>> ELSE <<entries[i]>>)
             \o WrittenEntries(entries, failed, i + 1)

RowOf(m) == [remote |-> m.remote, drive |-> m.drive, filename |-> StartupFileName(m.label)]

RowsOf(rows) ==
    [n \in 1..Len(rows) |->
        [remote |-> rows[n].remote, drive |-> rows[n].drive,
         filename |-> rows[n].filename]]

\* C21: after add_selected_to_startup went through the flagged records, with
\* the writes of some of them failing, every record whose write did not fail
\* has its file in the startup folder, the reported count is the number of
\* those records, and the startup log on disk holds one row for each of them
\* and no other row.
C21_WriteFailureIsSkipped ==
    (last.op = "add_to_startup" /\ last.outcome = "done") =>
        LET written == WrittenEntries(StartupEntries(mappings), last.failed, 1)
        IN  /\ \A n \in 1..Len(written) :
                   \E f \in autostart.files : f.name = StartupFileName(written[n].label)
            /\ last.created = Len(written)
            /\ RowsOf(LoadStartupLog(manifest_file))
                   = [n \in 1..Len(written) |-> RowOf(written[n])]

\* C22: every row of a call of add_selected_to_startup names a file of the
\* startup folder, and the row's cmdline is the command that file holds.
C22_RowRecordsCommand ==
    (last.op = "add_to_startup" /\ last.outcome = "done") =>
        \A n \in 1..Len(last.rows) :
            \E f \in autostart.files :
                /\ f.name = last.rows[n].filename
                /\ last.rows[n].cmdline = <<f.text.cmd>>

\* C27: after an add_selected_to_startup in which no write failed, the
\* flagged records have as many files EZMount_<safe label>.<ext> in the
\* startup folder as there are records, and each record's file holds the
\* command of that record.
C27_DistinctRecordsDistinctFiles ==
    (last.op = "add_to_startup" /\ last.outcome = "done" /\ last.failed = {}) =>
        LET es == StartupEntries(mappings)
        IN  /\ Cardinality({f \in autostart.files :
                               \E n \in 1..Len(es) :
                                   f.name = StartupFileName(es[n].label)}) = Len(es)
            /\ \A n \in 1..Len(es) :
                   \E f \in autostart.files :
                       /\ f.name = StartupFileName(es[n].label)
                       /\ f.text.cmd.remote = es[n].remote
                       /\ f.text.cmd.drive = es[n].drive

(***************************************************************************)
(* The periodic pass and the tracked mounts.                               *)
(***************************************************************************)
\* C23: every run of _refresh_status_periodic schedules the next run, so the
\* periodic pass stays scheduled for as long as the application runs,
\* whatever the records, the tracked mounts and the startup log hold.
C23_EveryPassSchedulesNext ==
    [][ last'.op = "periodic" => periodic_armed' ]_vars

\* the key "<remote> -> <target>" names the target d
NamesTarget(key, d) == EndsWith(key, <<" ", "-", ">", " ">> \o d)

SameTarget(k1, k2) == \E d \in DrivePool : NamesTarget(k1, d) /\ NamesTarget(k2, d)

\* C24: a scan creates no detected entry for a target that a process-owned
\* entry is tracked for: no entry the scan added names the target of an entry
\* with a process handle.
C24_NoDetectedEntryForOwnedTarget ==
    [][ last'.op \in {"scan", "periodic"} =>
            \A j \in 1..Len(active_mounts') :
                ( /\ active_mounts'[j].detected
                  /\ ~Tracked(active_mounts, active_mounts'[j].mapping) )
                => \A i \in 1..Len(active_mounts') :
                       active_mounts'[i].proc # 0 =>
                           ~SameTarget(active_mounts'[i].mapping,
                                       active_mounts'[j].mapping)
      ]_vars

\* C25: no two tracked entries have the same key "<remote> -> <target>".
C25_TrackedKeysUnique ==
    \A i, j \in 1..Len(active_mounts) :
        i # j => active_mounts[i].mapping # active_mounts[j].mapping

\* C26: _unmount_single(drive) leaves every tracked entry of another target
\* as it is: the entry stays tracked, and its process, if it has one, is
\* neither asked to stop nor stopped.
C26_StopLeavesOtherTargets ==
    [][ last'.op = "unmount_single" =>
            \A i \in 1..Len(active_mounts) :
                ~NamesTarget(active_mounts[i].mapping, last'.drive) =>
                    /\ \E j \in 1..Len(active_mounts') :
                           active_mounts'[j] = active_mounts[i]
                    /\ active_mounts[i].proc # 0 =>
                           /\ procs'[active_mounts[i].proc] = procs[active_mounts[i].proc]
                           /\ active_mounts[i].proc \in term_req' =>
                                  active_mounts[i].proc \in term_req
      ]_vars

=============================================================================
